---- MODULE Spec2Model ----
(***************************************************************************)
(* State management and ingestion of the group-chat assistant              *)
(* (src/tgAutoResponse/tg_ai_bot2.py): corpus loader, bounded conversation *)
(* store, JSON persistence, history log and the handlers that drive them.  *)
(*                                                                         *)
(* Text is a sequence of characters.  A character is a one-character       *)
(* string; the literals the program itself writes as a unit (tags, file    *)
(* headers, JSON keys) are single symbols of the alphabet.                 *)
(***************************************************************************)
EXTENDS Integers, Sequences, FiniteSets, TLC

\* ------------------------------------------------------------ characters
NL == "NL"
SP == " "
QT == "QT"
BSL == "BSL"
Whitespace == {SP, NL}

TagUser == "[user]"
TagAsst == "[asst]"
HistHeader == "# history"
RotHeader == "# history (truncated)"
DocOpen == "===== [doc:"
DocClose == "] ====="
RefHeader == "===== [all docs] ====="

\* str.lower() on the letters of the alphabet
LowerChar(c) ==
    CASE c = "T" -> "t"
      [] c = "X" -> "x"
      [] c = "B" -> "b"
      [] c = "A" -> "a"
      [] OTHER -> c

Lower(s) == [i \in 1..Len(s) |-> LowerChar(s[i])]

\* str.endswith / str.startswith
EndsWith(s, suf) ==
    /\ Len(s) >= Len(suf)
    /\ SubSeq(s, Len(s) - Len(suf) + 1, Len(s)) = suf

StartsWith(s, pre) ==
    /\ Len(s) >= Len(pre)
    /\ SubSeq(s, 1, Len(pre)) = pre

\* str.strip(): drop leading and trailing whitespace
RECURSIVE LStrip(_)
LStrip(s) ==
    IF s # <<>> /\ Head(s) \in Whitespace THEN LStrip(Tail(s)) ELSE s

RECURSIVE RStrip(_)
RStrip(s) ==
    IF s # <<>> /\ s[Len(s)] \in Whitespace
    THEN RStrip(SubSeq(s, 1, Len(s) - 1))
    ELSE s

Strip(s) == RStrip(LStrip(s))

\* str.replace(tok, ""): delete every occurrence of a one-symbol literal
RemoveAll(s, tok) == SelectSeq(s, LAMBDA c : c # tok)

\* concatenation of the texts ss[lo..hi], by halves
RECURSIVE ConcatRange(_, _, _)
ConcatRange(ss, lo, hi) ==
    IF lo > hi THEN <<>>
    ELSE IF lo = hi THEN ss[lo]
    ELSE ConcatRange(ss, lo, (lo + hi) \div 2) \o ConcatRange(ss, (lo + hi) \div 2 + 1, hi)

Concat(ss) == ConcatRange(ss, 1, Len(ss))

\* f.readlines(): split after every newline (the newline stays on its line)
\* nl: the positions of the newlines of s, ascending
SplitAfter(s, nl) ==
    [k \in 1..Len(nl) |-> SubSeq(s, IF k = 1 THEN 1 ELSE nl[k - 1] + 1, nl[k])]
    \o (IF nl = <<>> THEN (IF s = <<>> THEN <<>> ELSE <<s>>)
        ELSE IF nl[Len(nl)] = Len(s) THEN <<>>
        ELSE <<SubSeq(s, nl[Len(nl)] + 1, Len(s))>>)

ReadLines(s) == SplitAfter(s, SelectSeq([i \in 1..Len(s) |-> i], LAMBDA i : s[i] = NL))

\* ------------------------------------------------------------------ JSON
\* The persisted file is JSON text: the structural characters, and string
\* literals between quotes with quote, backslash and newline escaped.
\* (json.dump's indentation is insignificant whitespace and is left out.)
LB == "{"
RB == "}"
LK == "["
RK == "]"
COLON == ":"
COMMA == ","

\* json.dump of a str (ensure_ascii=False)
\* an encoder that forgets to escape the backslash
EscapeCharPlain(c) ==
    CASE c = QT -> <<BSL, QT>>
      [] c = NL -> <<BSL, "n">>
      [] OTHER -> <<c>>

EscapeChar(c) ==
    CASE c = QT -> <<BSL, QT>>
      [] c = BSL -> <<BSL, BSL>>
      [] c = NL -> <<BSL, "n">>
      [] OTHER -> <<c>>

DumpStr(s) == <<QT>> \o Concat([i \in 1..Len(s) |-> EscapeChar(s[i])]) \o <<QT>>

\* indent=2: every item starts on a line of its own, two spaces per level
Break(depth) == <<NL>> \o [i \in 1..(2 * depth) |-> SP]

\* the items of a container at the given depth, comma-separated
JoinItems(items, depth) ==
    Concat([i \in 1..Len(items) |->
               (IF i = 1 THEN <<>> ELSE <<COMMA>>) \o Break(depth) \o items[i]])

DumpMember(key, dumped) == DumpStr(<<key>>) \o <<COLON, SP>> \o dumped

\* one conversation turn {"role": ..., "content": ...}
DumpTurn(t, depth) ==
    <<LB>> \o JoinItems(<<DumpMember("role", DumpStr(t.role)),
                          DumpMember("content", DumpStr(t.content))>>, depth + 1)
    \o Break(depth) \o <<RB>>

DumpTurns(ts, depth) ==
    IF ts = <<>> THEN <<LK, RK>>
    ELSE <<LK>> \o JoinItems([i \in 1..Len(ts) |-> DumpTurn(ts[i], depth + 1)], depth + 1)
         \o Break(depth) \o <<RK>>

\* json.dump(bot_data, ensure_ascii=False, indent=2): the dict's keys in
\* insertion order
JsonDump(bd) ==
    <<LB>> \o JoinItems(<<DumpMember("conversation_context",
                                     DumpTurns(bd.conversation_context, 1)),
                          DumpMember("knowledge_base", DumpStr(bd.knowledge_base)),
                          DumpMember("custom_prompt", DumpStr(bd.custom_prompt))>>, 1)
    \o Break(0) \o <<RB>>

\* json.load: a parse result is [ok, val, next]; val is tagged with its JSON type
JFail == [ok |-> FALSE, val |-> [t |-> "none", v |-> <<>>], next |-> 0]
JOk(type, v, next) == [ok |-> TRUE, val |-> [t |-> type, v |-> v], next |-> next]

\* the scanner of a string literal, one character at a time:
\* [acc, esc, ok] -- the text so far, whether a backslash is open, no error yet
UnescapeStep(st, c) ==
    IF ~st.ok THEN st
    ELSE IF st.esc THEN
        IF c \in {QT, BSL} THEN [acc |-> Append(st.acc, c), esc |-> FALSE, ok |-> TRUE]
        ELSE IF c = "n" THEN [acc |-> Append(st.acc, NL), esc |-> FALSE, ok |-> TRUE]
        ELSE [st EXCEPT !.ok = FALSE]
    ELSE IF c = BSL THEN [st EXCEPT !.esc = TRUE]
    ELSE IF c = NL THEN [st EXCEPT !.ok = FALSE]
    ELSE [st EXCEPT !.acc = Append(st.acc, c)]

\* the scanner run over toks[lo..hi], by halves: the state after the first
\* half is computed once and is the state the second half starts from
RECURSIVE Unescape(_, _, _, _)
Unescape(toks, lo, hi, st) ==
    IF lo > hi THEN st
    ELSE IF lo = hi THEN UnescapeStep(st, toks[lo])
    ELSE CHOOSE r \in {Unescape(toks, (lo + hi) \div 2 + 1, hi, half) :
                          half \in {Unescape(toks, lo, (lo + hi) \div 2, st)}} : TRUE

\* how many backslashes stand directly before position j, not before position i
BackslashRun(toks, i, j) ==
    CHOOSE r \in 0..(j - i) :
        /\ \A m \in 1..r : toks[j - m] = BSL
        /\ r = j - i \/ toks[j - r - 1] # BSL

ClosesString(toks, i, j) == toks[j] = QT /\ BackslashRun(toks, i, j) % 2 = 0

\* a string literal whose text starts at position i: up to the first quote
\* that no backslash escapes
StringResult(st, end) ==
    IF st.ok /\ ~st.esc THEN JOk("str", st.acc, end + 1) ELSE JFail

StringUpTo(toks, i, end) ==
    StringResult(Unescape(toks, i, end - 1, [acc |-> <<>>, esc |-> FALSE, ok |-> TRUE]), end)

ParseStringBody(toks, i) ==
    IF \A j \in i..Len(toks) : ~ClosesString(toks, i, j) THEN JFail
    ELSE StringUpTo(toks, i, CHOOSE j \in i..Len(toks) :
                                 /\ ClosesString(toks, i, j)
                                 /\ \A k \in i..(j - 1) : ~ClosesString(toks, i, k))

\* the first position from i on that holds no white space
SkipWs(toks, i) ==
    CHOOSE j \in i..(Len(toks) + 1) :
        /\ j = Len(toks) + 1 \/ toks[j] \notin Whitespace
        /\ \A k \in i..(j - 1) : toks[k] \in Whitespace

RECURSIVE ParseValue(_, _)
RECURSIVE ParseElements(_, _, _)
RECURSIVE ParseMembers(_, _, _)

\* after "[" and white space
ParseArrayAt(toks, i) ==
    IF i <= Len(toks) /\ toks[i] = RK THEN JOk("arr", <<>>, i + 1)
    ELSE ParseElements(toks, i, <<>>)

\* after "{" and white space
ParseObjectAt(toks, i) ==
    IF i <= Len(toks) /\ toks[i] = RB THEN JOk("obj", <<>>, i + 1)
    ELSE ParseMembers(toks, i, <<>>)

\* a value that starts at position i
ParseValueAt(toks, i) ==
    IF i > Len(toks) THEN JFail
    ELSE IF toks[i] = QT THEN ParseStringBody(toks, i + 1)
    ELSE IF toks[i] = LK THEN ParseArrayAt(toks, SkipWs(toks, i + 1))
    ELSE IF toks[i] = LB THEN ParseObjectAt(toks, SkipWs(toks, i + 1))
    ELSE JFail

ParseValue(toks, i) == ParseValueAt(toks, SkipWs(toks, i))

\* after the elements acc of an array: n is where the next token stands
ElementsThen(toks, acc, n) ==
    IF n > Len(toks) THEN JFail
    ELSE IF toks[n] = COMMA THEN ParseElements(toks, n + 1, acc)
    ELSE IF toks[n] = RK THEN JOk("arr", acc, n + 1)
    ELSE JFail

\* after the element r of an array
AfterElement(toks, acc, r) ==
    IF ~r.ok THEN JFail
    ELSE CHOOSE e \in {ElementsThen(toks, seen, SkipWs(toks, r.next)) :
                          seen \in {Append(acc, r.val)}} : TRUE

ParseElements(toks, i, acc) == AfterElement(toks, acc, ParseValue(toks, i))

\* after the members acc of an object: n is where the next token stands
MembersThen(toks, acc, n) ==
    IF n > Len(toks) THEN JFail
    ELSE IF toks[n] = COMMA THEN ParseMembers(toks, SkipWs(toks, n + 1), acc)
    ELSE IF toks[n] = RB THEN JOk("obj", acc, n + 1)
    ELSE JFail

\* after the value r of the member with key k of an object
AfterMember(toks, acc, k, r) ==
    IF ~r.ok THEN JFail
    ELSE CHOOSE m \in {MembersThen(toks, seen, SkipWs(toks, r.next)) :
                          seen \in {Append(acc, <<k.val.v, r.val>>)}} : TRUE

\* after the key k of a member: n is where the next token stands
AfterKey(toks, acc, k, n) ==
    IF ~k.ok \/ n > Len(toks) \/ toks[n] # COLON THEN JFail
    ELSE AfterMember(toks, acc, k, ParseValue(toks, n + 1))

KeyThen(toks, acc, k) == AfterKey(toks, acc, k, IF k.ok THEN SkipWs(toks, k.next) ELSE 0)

\* a member that starts at position i
ParseMembers(toks, i, acc) ==
    IF i > Len(toks) \/ toks[i] # QT THEN JFail
    ELSE KeyThen(toks, acc, ParseStringBody(toks, i + 1))

\* the whole text must be one value (anything else is a JSONDecodeError)
WholeText(toks, r) ==
    IF r.ok /\ SkipWs(toks, r.next) = Len(toks) + 1 THEN r ELSE JFail

JsonParse(toks) == WholeText(toks, ParseValue(toks, 1))

\* the Python value of a parsed JSON value: str, list, or dict (a record whose
\* fields are the keys; a repeated key keeps its last value)
RECURSIVE PyValue(_)
PyValue(j) ==
    IF j.t = "str" THEN j.v
    ELSE IF j.t = "arr" THEN [i \in 1..Len(j.v) |-> PyValue(j.v[i])]
    ELSE LET keys == {j.v[i][1][1] : i \in 1..Len(j.v)}
             last(k) == CHOOSE i \in 1..Len(j.v) :
                           /\ j.v[i][1][1] = k
                           /\ \A m \in (i + 1)..Len(j.v) : j.v[m][1][1] # k
         IN [k \in keys |-> PyValue(j.v[last(k)][2])]

\* --------------------------------------------------------- configuration
\* CONFIG: the default configuration of load_config
max_file_size == 5242880
max_context_msg == 20
docs_dir == <<"docs">>
chat_history_file == <<"docs", "/", "chat_history", ".", "t", "x", "t">>
data_file == <<"tg_single_group_data", ".", "json">>
default_system_prompt == <<"You are the group assistant:", NL, "1. use the docs">>
MAX_SINGLE_FILE_SIZE == 10 * 1024 * 1024
TxtSuffix == <<".", "t", "x", "t">>

\* ------------------------------------------------------------ file system
\* A file: whether it exists, its text, its size in bytes, and how it answers
\* the system calls: "ok", "unreadable" (open/read raises: permissions, bytes
\* that are not UTF-8), "dangling" (listed, but stat raises) or "readonly"
\* (open for writing raises).
NoFile == [exists |-> FALSE, content |-> <<>>, size |-> 0, mode |-> "ok"]

\* UTF-8 width of a character
Width(c) ==
    CASE c \in {TagUser, TagAsst} -> 12
      [] c = HistHeader -> 20
      [] c = RotHeader -> 60
      [] OTHER -> 1

\* the size of a text in bytes: one per character, and the rest of the width
\* of each wide one
Count(s, c) == Cardinality({i \in 1..Len(s) : s[i] = c})
ByteLen(s) ==
    Len(s) + (Width(TagUser) - 1) * Count(s, TagUser)
           + (Width(TagAsst) - 1) * Count(s, TagAsst)
           + (Width(HistHeader) - 1) * Count(s, HistHeader)
           + (Width(RotHeader) - 1) * Count(s, RotHeader)

\* open(path, "w") ... write(text)
WriteFile(files, path, text) ==
    [files EXCEPT ![path] = [exists |-> TRUE, content |-> text,
                             size |-> ByteLen(text), mode |-> "ok"]]

\* os.path.join(dir, name)
PathJoin(dir, name) == dir \o <<"/">> \o name

\* the file names of the model, in the order the directory lists them
\* (os.listdir's order is the file system's; it is taken as fixed)
NameOrder ==
    << <<"a", ".", "t", "x", "t">>,
       <<"b", ".", "T", "X", "T">>,
       <<"chat_history", ".", "t", "x", "t">>,
       <<"n", ".", "m", "d">> >>

\* os.listdir(dir)
ListDir(files, dir) ==
    SelectSeq(NameOrder, LAMBDA n : /\ PathJoin(dir, n) \in DOMAIN files
                                    /\ files[PathJoin(dir, n)].exists)

\* ------------------------------------------------------------- bot state
DefaultBotData ==
    [conversation_context |-> <<>>,
     knowledge_base |-> <<>>,
     custom_prompt |-> default_system_prompt]

RoleUser == <<"user">>
RoleAsst == <<"assistant">>
Turn(role, content) == [role |-> role, content |-> content]

\* lst[-n:] as Python evaluates it (lst[-0:] is the whole list)
PyLast(lst, n) ==
    IF n = 0 \/ n >= Len(lst) THEN lst ELSE SubSeq(lst, Len(lst) - n + 1, Len(lst))

\* a trim that cuts one entry too many
TrimContextShort(ctx) ==
    IF Len(ctx) > max_context_msg THEN PyLast(ctx, max_context_msg - 1) ELSE ctx

\* a trim that keeps the oldest entries instead of the newest
TrimContextOldest(ctx) ==
    IF Len(ctx) > max_context_msg THEN SubSeq(ctx, 1, max_context_msg) ELSE ctx

\* "if len(ctx) > max: ctx = ctx[-max:]"
TrimContext(ctx) ==
    IF Len(ctx) > max_context_msg THEN PyLast(ctx, max_context_msg) ELSE ctx

\* save_data: overwrite the data file with the JSON text of bot_data; when the
\* file cannot be opened for writing (mode "readonly") the exception is
\* logged, the file stays as it is, and save_data returns as it always does
save_data(bd, files) ==
    IF files[data_file].mode = "readonly"
    THEN files
    ELSE WriteFile(files, data_file, JsonDump(bd))

\* a load_data that falls back to the default without writing it
load_data_no_save(files) ==
    IF files[data_file].exists THEN
        IF files[data_file].mode = "unreadable" THEN
            [bot_data |-> DefaultBotData, files |-> files, branch |-> "error"]
        ELSE LET r == JsonParse(files[data_file].content) IN
            IF r.ok THEN [bot_data |-> PyValue(r.val), files |-> files, branch |-> "restored"]
            ELSE [bot_data |-> DefaultBotData, files |-> files, branch |-> "malformed"]
    ELSE [bot_data |-> DefaultBotData, files |-> save_data(DefaultBotData, files),
          branch |-> "absent"]

\* load_data: the new bot_data, the files, and the branch taken
load_data(files) ==
    IF files[data_file].exists THEN
        IF files[data_file].mode = "unreadable" THEN
            [bot_data |-> DefaultBotData, files |-> save_data(DefaultBotData, files),
             branch |-> "error"]
        ELSE LET r == JsonParse(files[data_file].content) IN
            IF r.ok THEN [bot_data |-> PyValue(r.val), files |-> files, branch |-> "restored"]
            ELSE [bot_data |-> DefaultBotData, files |-> save_data(DefaultBotData, files),
                  branch |-> "malformed"]
    ELSE [bot_data |-> DefaultBotData, files |-> save_data(DefaultBotData, files),
          branch |-> "absent"]

\* ----------------------------------------------------------- load_all_docs
\* one section of the knowledge base
DocSection(filename, content) ==
    <<NL, NL, DocOpen>> \o filename \o <<DocClose, NL>> \o content

\* the loop over os.listdir(docs_dir): [kb, total_files, raised]
RECURSIVE LoadDocsLoop(_, _, _, _)
LoadDocsLoop(names, files, kb, total) ==
    IF names = <<>> THEN [kb |-> kb, total_files |-> total, raised |-> FALSE]
    ELSE LET filename == Head(names)
             f == files[PathJoin(docs_dir, filename)]
             content == Strip(f.content)
         IN IF ~EndsWith(Lower(filename), TxtSuffix)
            THEN LoadDocsLoop(Tail(names), files, kb, total)
            ELSE IF f.mode = "dangling"
            THEN [kb |-> kb, total_files |-> total, raised |-> TRUE]
            ELSE IF f.size > MAX_SINGLE_FILE_SIZE
            THEN LoadDocsLoop(Tail(names), files, kb, total)
            ELSE IF f.mode = "unreadable"
            THEN LoadDocsLoop(Tail(names), files, kb, total)
            ELSE IF content # <<>>
            THEN LoadDocsLoop(Tail(names), files, kb \o DocSection(filename, content), total + 1)
            ELSE LoadDocsLoop(Tail(names), files, kb, total)

\* a pass that takes a user line into the conversation as soon as it is read
HistoryStepEager(st, raw) ==
    LET line == Strip(raw) IN
    IF StartsWith(line, <<TagUser>>)
    THEN [st EXCEPT !.ctx = @ \o <<Turn(RoleUser, Strip(RemoveAll(line, TagUser)))>>]
    ELSE IF StartsWith(line, <<TagAsst>>)
    THEN [st EXCEPT !.ctx = @ \o <<Turn(RoleAsst, Strip(RemoveAll(line, TagAsst)))>>]
    ELSE st

\* one pass of the loop over the history lines; st = [ctx, user_msg, assistant_msg]
HistoryStep(st, raw) ==
    LET line == Strip(raw) IN
    IF StartsWith(line, <<TagUser>>)
    THEN [st EXCEPT !.user_msg = Strip(RemoveAll(line, TagUser))]
    ELSE IF StartsWith(line, <<TagAsst>>)
    THEN LET assistant_msg == Strip(RemoveAll(line, TagAsst)) IN
         IF st.user_msg # <<>> /\ assistant_msg # <<>>
         THEN [ctx |-> st.ctx \o <<Turn(RoleUser, st.user_msg),
                                   Turn(RoleAsst, assistant_msg)>>,
               user_msg |-> <<>>, assistant_msg |-> <<>>]
         ELSE [st EXCEPT !.assistant_msg = assistant_msg]
    ELSE st

\* the loop over lines[lo..hi], by halves: the state after the first half is
\* computed once and is the state the second half starts from
RECURSIVE ParseHistory(_, _, _, _)
ParseHistory(lines, lo, hi, st) ==
    IF lo > hi THEN st
    ELSE IF lo = hi THEN HistoryStep(st, lines[lo])
    ELSE CHOOSE r \in {ParseHistory(lines, (lo + hi) \div 2 + 1, hi, half) :
                          half \in {ParseHistory(lines, lo, (lo + hi) \div 2, st)}} : TRUE

\* the conversation as it is rebuilt from the text of the history file,
\* before it is trimmed
HistoryContext(text) ==
    LET lines == ReadLines(text) IN
    ParseHistory(lines, 1, Len(lines),
                 [ctx |-> <<>>, user_msg |-> <<>>, assistant_msg |-> <<>>]).ctx

\* load_all_docs after the loop over the documents: the history file is
\* created or read back (parsed: what its text holds), then save_data
LoadHistory(bd1, files, parsed, total_files) ==
    LET hist == files[chat_history_file]
        readable == hist.exists /\ hist.mode \in {"ok", "readonly"}
        files1 == IF ~hist.exists
                  THEN WriteFile(files, chat_history_file, <<HistHeader, NL, NL>>)
                  ELSE files
        bd2 == IF readable
               THEN [bd1 EXCEPT !.conversation_context = TrimContext(parsed)]
               ELSE bd1
    IN [bot_data |-> bd2, files |-> save_data(bd2, files1), raised |-> FALSE,
        untrimmed |-> IF readable THEN parsed ELSE bd1.conversation_context,
        total_files |-> total_files]

\* loop: the result of the loop over the documents
AfterDocsLoop(bd, files, loop) ==
    IF loop.raised
    THEN [bot_data |-> [bd EXCEPT !.knowledge_base = loop.kb], files |-> files,
          raised |-> TRUE, untrimmed |-> bd.conversation_context,
          total_files |-> loop.total_files]
    ELSE LoadHistory([bd EXCEPT !.knowledge_base = loop.kb], files,
                     HistoryContext(files[chat_history_file].content), loop.total_files)

\* a load_all_docs that adds to the knowledge base it finds
load_all_docs_patching(bd, files) ==
    AfterDocsLoop(bd, files,
                  LoadDocsLoop(ListDir(files, docs_dir), files, bd.knowledge_base, 0))

\* load_all_docs: [bot_data, files, raised, untrimmed, total_files]
\* raised: an exception left the function (nothing after the loop ran)
load_all_docs(bd, files) ==
    AfterDocsLoop(bd, files, LoadDocsLoop(ListDir(files, docs_dir), files, <<>>, 0))

\* ----------------------------------------------------------- history log
MAX_CHAT_FILE_SIZE == 100 * 1024 * 1024
TRIM_TO_SIZE == 50 * 1024 * 1024

\* f.seek(-n, SEEK_END); f.read().decode("utf-8", errors="ignore"):
\* the characters that lie wholly within the last n bytes
LastChars(s, k) == SubSeq(s, Len(s) - k + 1, Len(s))
TailBytes(s, n) ==
    LastChars(s, CHOOSE k \in 0..Len(s) :
                     /\ ByteLen(LastChars(s, k)) <= n
                     /\ k = Len(s) \/ ByteLen(LastChars(s, k + 1)) > n)

\* A long stretch of a file's text is held as one symbol: a run of characters
\* without line breaks, of one byte each (FillAscii) or three (FillWide).
\* A file holds at most one run; its bytes are what the file's size leaves
\* after the rest of the text.
FillAscii == "(run of 1-byte characters)"
FillWide == "(run of 3-byte characters)"
FillChars == {FillAscii, FillWide}
FillWidth(c) == IF c = FillWide THEN 3 ELSE 1

\* the text read from the last n bytes of file f, and its size once written
TailOf(f, n) ==
    LET c == f.content
        at == {i \in 1..Len(c) : c[i] \in FillChars}
    IN IF at = {}
       THEN [text |-> TailBytes(c, n), bytes |-> ByteLen(TailBytes(c, n))]
       ELSE LET p == CHOOSE i \in at : TRUE
                before == SubSeq(c, 1, p - 1)
                after == SubSeq(c, p + 1, Len(c))
                run == f.size - ByteLen(before) - ByteLen(after)
                room == n - ByteLen(after)
                kept == room - (room % FillWidth(c[p]))
            IN IF room <= 0
               THEN [text |-> TailBytes(after, n), bytes |-> ByteLen(TailBytes(after, n))]
               ELSE IF run <= room
               THEN [text |-> TailBytes(before, room - run) \o <<c[p]>> \o after,
                     bytes |-> ByteLen(TailBytes(before, room - run)) + run + ByteLen(after)]
               ELSE [text |-> (IF kept > 0 THEN <<c[p]>> ELSE <<>>) \o after,
                     bytes |-> kept + ByteLen(after)]

\* a rotation that keeps the whole file under the marker
RotateHistoryWhole(files) ==
    LET hist == files[chat_history_file] IN
    IF hist.exists /\ hist.size > MAX_CHAT_FILE_SIZE
    THEN [files EXCEPT ![chat_history_file] =
             [exists |-> TRUE, content |-> <<RotHeader, NL, NL>> \o hist.content,
              size |-> ByteLen(<<RotHeader, NL, NL>>) + hist.size, mode |-> "ok"]]
    ELSE files

\* the rotation check before the append
RotateHistory(files) ==
    LET hist == files[chat_history_file]
        tail == TailOf(hist, TRIM_TO_SIZE)
    IN IF hist.exists /\ hist.size > MAX_CHAT_FILE_SIZE
       THEN [files EXCEPT ![chat_history_file] =
                [exists |-> TRUE, content |-> <<RotHeader, NL, NL>> \o tail.text,
                 size |-> ByteLen(<<RotHeader, NL, NL>>) + tail.bytes, mode |-> "ok"]]
       ELSE files

\* the record of one exchange
HistoryRecord(user_question, ai_reply) ==
    <<TagUser>> \o user_question \o <<NL, TagAsst>> \o ai_reply \o <<NL, NL>>

\* open(path, "a") ... write(text)
AppendFile(files, path, text) ==
    [files EXCEPT ![path] = [exists |-> TRUE, content |-> files[path].content \o text,
                             size |-> files[path].size + ByteLen(text), mode |-> "ok"]]

\* -------------------------------------------------------- mention parsing
\* the bot's user name as the platform reports it (context.bot.get_me())
BotInfoUsername == <<"B">>

\* message.text[offset:offset + length]
Slice(text, from, to) ==
    SubSeq(text, (IF from > Len(text) THEN Len(text) ELSE from) + 1,
                 IF to > Len(text) THEN Len(text) ELSE to)

\* the loop over message.entities: [is_mention_me, user_question]
RECURSIVE MentionLoop(_, _, _, _)
MentionLoop(text, entities, bot_username, user_question) ==
    IF entities = <<>> THEN [is_mention_me |-> FALSE, user_question |-> user_question]
    ELSE LET entity == Head(entities)
             mention_text == Lower(Slice(text, entity.offset, entity.offset + entity.length))
         IN IF entity.type = "mention" /\ RemoveAll(mention_text, "@") = bot_username
            THEN [is_mention_me |-> TRUE,
                  user_question |-> Strip(Slice(text, 0, entity.offset)
                                          \o Slice(text, entity.offset + entity.length, Len(text)))]
            ELSE MentionLoop(text, Tail(entities), bot_username, user_question)

\* a parse that leaves the white space around the removed mention in place
ParseMentionUnstripped(message, bot_username) ==
    LET text == message.text
        entities == message.entities
        hits == {i \in 1..Len(entities) :
                    /\ entities[i].type = "mention"
                    /\ RemoveAll(Lower(Slice(text, entities[i].offset,
                                             entities[i].offset + entities[i].length)), "@")
                       = bot_username}
        entity == entities[CHOOSE i \in hits : \A j \in hits : i <= j]
    IN IF hits = {} THEN [is_mention_me |-> FALSE, user_question |-> Strip(text)]
       ELSE [is_mention_me |-> TRUE,
             user_question |-> Slice(text, 0, entity.offset)
                               \o Slice(text, entity.offset + entity.length, Len(text))]

\* the entity loop of handle_mention on a message
ParseMention(message, bot_username) ==
    MentionLoop(message.text, message.entities, bot_username, Strip(message.text))

\* a request that carries only the last exchange of the conversation
MessagesLastExchange(bd, user_question) ==
    LET system_msg == IF bd.knowledge_base # <<>>
                      THEN bd.custom_prompt \o <<NL, NL, RefHeader, NL>> \o bd.knowledge_base
                      ELSE bd.custom_prompt
    IN <<Turn(<<"system">>, system_msg)>> \o PyLast(bd.conversation_context, 2)
       \o <<Turn(RoleUser, user_question)>>

\* the request of handle_mention: system entry, the context, the question
Messages(bd, user_question) ==
    LET system_msg == IF bd.knowledge_base # <<>>
                      THEN bd.custom_prompt \o <<NL, NL, RefHeader, NL>> \o bd.knowledge_base
                      ELSE bd.custom_prompt
    IN <<Turn(<<"system">>, system_msg)>> \o bd.conversation_context
       \o <<Turn(RoleUser, user_question)>>

\* ------------------------------------------------------------------ state
VARIABLES
    pc,            \* where the process is: "boot" (globals built, main not yet run),
                   \* "main_docs" (main between load_data and load_all_docs),
                   \* "idle" (polling), "hm_log" (handle_mention after save_data);
                   \* for save_data and load_data on their own: "save" (before
                   \* save_data), "load" (before load_data), "loaded"
    bot_data,      \* the global bot_data
    BOT_USERNAME,  \* the global BOT_USERNAME (<<>> is None)
    client,        \* whether OPENAI_API_KEY gave a client
    fs,            \* the files: path -> file
    pending,       \* handle_mention's <<user_question, ai_reply>> while pc = "hm_log"
    calls,         \* the model calls of the last update, each the messages it sent
    reply,         \* what the last update was answered with
    event,         \* the last step taken
    untrimmed,     \* the conversation list of the last step before it was trimmed
    ncommit,       \* exchanges committed since conversation and log were last empty
    total,         \* exchanges committed in all
    interrupted,   \* the exchange that was persisted but not logged at the last crash
    last_corpus,   \* <<kb>> of the last completed load_all_docs; <<>> once files
                   \* were changed from outside since
    update         \* the message of the update handle_mention handles or handled
                   \* last; NoMessage after any other update

vars == <<pc, bot_data, BOT_USERNAME, client, fs, pending, calls, reply, event,
          untrimmed, ncommit, total, interrupted, last_corpus, update>>

\* no message yet
NoMessage == [text |-> <<>>, entities |-> <<>>]

NoReply == [kind |-> "none", text |-> <<>>]
Reply(kind, text) == [kind |-> kind, text |-> text]

\* the paths of the model
DocNames == {NameOrder[i] : i \in 1..Len(NameOrder)}
Paths == {PathJoin(docs_dir, n) : n \in DocNames} \cup {chat_history_file, data_file}

\* a fresh installation: no data file, no history file, an empty docs directory
FreshFiles == [p \in Paths |-> NoFile]

\* the process as the interpreter has built its globals, before main runs;
\* commits: the exchanges the files hold from earlier runs
InitWith(files, has_client, commits) ==
    /\ pc = "boot"
    /\ bot_data = DefaultBotData
    /\ BOT_USERNAME = <<>>
    /\ client = has_client
    /\ fs = files
    /\ pending = <<>>
    /\ calls = <<>>
    /\ reply = NoReply
    /\ event = "init"
    /\ untrimmed = <<>>
    /\ ncommit = commits
    /\ total = 0
    /\ interrupted = <<>>
    /\ last_corpus = <<>>
    /\ update = NoMessage

\* ------------------------------------------------------------------- main
\* main: load_data()
MainLoadData ==
    /\ pc = "boot"
    /\ \E r \in {load_data(fs)} :
        /\ bot_data' = r.bot_data
        /\ fs' = r.files
        /\ event' = r.branch
        /\ untrimmed' = r.bot_data.conversation_context
    /\ pc' = "main_docs"
    /\ UNCHANGED <<BOT_USERNAME, client, update, pending, calls, reply, ncommit, total, interrupted,
                   last_corpus>>

\* main: load_all_docs(); an exception here ends the process
MainLoadAllDocs ==
    /\ pc = "main_docs"
    /\ \E r \in {load_all_docs(bot_data, fs)} :
        /\ fs' = r.files
        /\ untrimmed' = IF r.raised THEN <<>> ELSE r.untrimmed
        /\ bot_data' = IF r.raised THEN DefaultBotData ELSE r.bot_data
        /\ pc' = IF r.raised THEN "boot" ELSE "idle"
        /\ event' = IF r.raised THEN "main_raised" ELSE "main"
        /\ last_corpus' = IF r.raised THEN last_corpus ELSE <<r.bot_data.knowledge_base>>
    /\ UNCHANGED <<BOT_USERNAME, client, update, pending, calls, reply, ncommit, total, interrupted>>

\* the process dies (power loss, kill) and is started again: memory is lost
Crash ==
    /\ pc \in {"main_docs", "idle", "hm_log"}
    /\ pc' = "boot"
    /\ bot_data' = DefaultBotData
    /\ BOT_USERNAME' = <<>>
    /\ pending' = <<>>
    /\ calls' = <<>>
    /\ reply' = NoReply
    /\ event' = "crash"
    /\ untrimmed' = <<>>
    /\ interrupted' = IF pc = "hm_log" THEN pending
                      ELSE IF pc = "main_docs" THEN interrupted ELSE <<>>
    /\ update' = NoMessage
    /\ UNCHANGED <<client, fs, ncommit, total, last_corpus>>

\* --------------------------------------------------------------- handlers
\* a dispatcher that starts a handler while an upload's reload is under way
DispatchingConcurrently == pc \in {"idle", "up_reload"}

\* The application (built with its defaults: updates are not processed
\* concurrently) gives the next update to its handler only when the handler
\* of the last one has returned
Dispatching == pc = "idle"

\* what a handler that touches neither conversation nor files leaves behind
Answered(kind, text, what) ==
    /\ reply' = Reply(kind, text)
    /\ event' = what
    /\ untrimmed' = bot_data.conversation_context
    /\ interrupted' = <<>>

\* the outcome of client.chat.completions.create and of reading its content
ModelOk(content) == [kind |-> "ok", content |-> content]
ModelOpenAIError == [kind |-> "openai_error", content |-> <<>>]
ModelMalformed == [kind |-> "malformed", content |-> <<>>]

\* a handle_mention that records the question before the model has answered
ExchangeEager(bd, files, user_question, outcome) ==
    LET messages == Messages(bd, user_question)
        ai_reply == Strip(outcome.content)
        asked == bd.conversation_context \o <<Turn(RoleUser, user_question)>>
        bd0 == [bd EXCEPT !.conversation_context = TrimContext(asked)]
        ctx == asked \o <<Turn(RoleAsst, ai_reply)>>
        bd1 == [bd EXCEPT !.conversation_context = TrimContext(ctx)]
    IN IF outcome.kind = "ok"
       THEN [committed |-> TRUE, bot_data |-> bd1, files |-> save_data(bd1, files),
             untrimmed |-> ctx, calls |-> <<messages>>, reply |-> NoReply,
             pending |-> <<user_question, ai_reply>>]
       ELSE [committed |-> FALSE, bot_data |-> bd0, files |-> save_data(bd0, files),
             untrimmed |-> asked, calls |-> <<messages>>,
             reply |-> IF outcome.kind = "openai_error"
                       THEN Reply("answer_failed", <<>>)
                       ELSE Reply("error_tip", <<>>),
             pending |-> <<>>]

\* handle_mention's try block up to save_data, and its except clauses:
\* the model is called once; only a reply that was read is folded into the state
Exchange(bd, files, user_question, outcome) ==
    LET messages == Messages(bd, user_question)
        ai_reply == Strip(outcome.content)
        ctx == bd.conversation_context
                  \o <<Turn(RoleUser, user_question), Turn(RoleAsst, ai_reply)>>
        bd1 == [bd EXCEPT !.conversation_context = TrimContext(ctx)]
    IN IF outcome.kind = "ok"
       THEN [committed |-> TRUE, bot_data |-> bd1, files |-> save_data(bd1, files),
             untrimmed |-> ctx, calls |-> <<messages>>, reply |-> NoReply,
             pending |-> <<user_question, ai_reply>>]
       ELSE [committed |-> FALSE, bot_data |-> bd, files |-> files,
             untrimmed |-> bd.conversation_context, calls |-> <<messages>>,
             reply |-> IF outcome.kind = "openai_error"
                       THEN Reply("answer_failed", <<>>)
                       ELSE Reply("error_tip", <<>>),
             pending |-> <<>>]

\* handle_mention up to and including save_data; the rest is HandleMentionLog.
\* limit bounds the exchanges committed.
HandleMention(message, outcome, limit) ==
    /\ Dispatching
    /\ IF message.text = <<>>
       THEN /\ Answered("non_text_tip", <<>>, "non_text")
            /\ calls' = <<>>
            /\ UNCHANGED <<pc, bot_data, BOT_USERNAME, fs, pending, ncommit, total>>
       ELSE LET bot == IF BOT_USERNAME = <<>> THEN Lower(BotInfoUsername) ELSE BOT_USERNAME
                m == ParseMention(message, bot)
            IN \E x \in {Exchange(bot_data, fs, m.user_question, outcome)} :
               /\ BOT_USERNAME' = bot
               /\ IF ~m.is_mention_me
                  THEN /\ Answered("none", <<>>, "not_mentioned")
                       /\ calls' = <<>>
                       /\ UNCHANGED <<pc, bot_data, fs, pending, ncommit, total>>
                  ELSE IF m.user_question = <<>>
                  THEN /\ Answered("no_question_tip", <<>>, "no_question")
                       /\ calls' = <<>>
                       /\ UNCHANGED <<pc, bot_data, fs, pending, ncommit, total>>
                  ELSE IF ~client
                  THEN /\ Answered("no_api_key", <<>>, "no_client")
                       /\ calls' = <<>>
                       /\ UNCHANGED <<pc, bot_data, fs, pending, ncommit, total>>
                  ELSE /\ x.committed => total < limit
                       /\ bot_data' = x.bot_data
                       /\ fs' = x.files
                       /\ pending' = x.pending
                       /\ calls' = x.calls
                       /\ reply' = x.reply
                       /\ event' = IF outcome.kind = "ok" THEN "commit" ELSE "model_error"
                       /\ untrimmed' = x.untrimmed
                       /\ interrupted' = <<>>
                       /\ ncommit' = IF x.committed THEN ncommit + 1 ELSE ncommit
                       /\ total' = IF x.committed THEN total + 1 ELSE total
                       /\ pc' = IF x.committed THEN "hm_log" ELSE pc
    /\ update' = message
    /\ UNCHANGED <<client, last_corpus>>

\* handle_mention after save_data: rotate, append the record, send the answer.
\* A history file that cannot be opened for writing makes the append raise,
\* and an empty answer makes reply_text raise: both end in the handler's
\* except clause, which sends error_tip.
HandleMentionLog ==
    /\ pc = "hm_log"
    /\ \E failed \in {fs[chat_history_file].mode = "readonly"} :
        /\ fs' = IF failed THEN fs
                 ELSE AppendFile(RotateHistory(fs), chat_history_file,
                                 HistoryRecord(pending[1], pending[2]))
        /\ reply' = IF failed \/ pending[2] = <<>>
                    THEN Reply("error_tip", <<>>)
                    ELSE Reply("answer", pending[2])
        /\ event' = IF failed THEN "log_failed"
                    ELSE IF pending[2] = <<>> THEN "reply_failed"
                    ELSE "logged"
    /\ pending' = <<>>
    /\ pc' = "idle"
    /\ UNCHANGED <<bot_data, BOT_USERNAME, client, update, calls, untrimmed, ncommit, total,
                   interrupted, last_corpus>>

\* /reloadall and /start: load_all_docs(notify=True); an exception goes to
\* error_handler
ReloadCmd(what) ==
    /\ Dispatching
    /\ \E r \in {load_all_docs(bot_data, fs)} :
        /\ bot_data' = r.bot_data
        /\ fs' = r.files
        /\ untrimmed' = r.untrimmed
        /\ reply' = IF r.raised THEN Reply("error_tip", <<>>) ELSE Reply(what, <<>>)
        /\ event' = IF r.raised THEN "reload_raised" ELSE "reload"
        /\ last_corpus' = IF r.raised THEN last_corpus ELSE <<r.bot_data.knowledge_base>>
    /\ calls' = <<>>
    /\ interrupted' = <<>>
    /\ update' = NoMessage
    /\ UNCHANGED <<pc, BOT_USERNAME, client, pending, ncommit, total>>

reload_all_cmd == ReloadCmd("reload_result")
start_cmd == ReloadCmd("guide")

\* " ".join(context.args)
JoinArgs(args) ==
    Concat([i \in 1..Len(args) |-> IF i = 1 THEN args[i] ELSE <<SP>> \o args[i]])

\* /setprompt
set_prompt_cmd(args) ==
    /\ Dispatching
    /\ LET new_prompt == Strip(JoinArgs(args))
           bd == [bot_data EXCEPT !.custom_prompt = new_prompt]
       IN IF new_prompt = <<>>
          THEN /\ Answered("current_prompt", bot_data.custom_prompt, "show_prompt")
               /\ UNCHANGED <<bot_data, fs>>
          ELSE /\ Answered("prompt_updated", new_prompt, "set_prompt")
               /\ bot_data' = bd
               /\ fs' = save_data(bd, fs)
    /\ calls' = <<>>
    /\ update' = NoMessage
    /\ UNCHANGED <<pc, BOT_USERNAME, client, pending, ncommit, total, last_corpus>>

\* a /clearall that leaves the history file as it is
clear_all_cmd_keeping_log ==
    /\ Dispatching
    /\ bot_data' = DefaultBotData
    /\ fs' = save_data(DefaultBotData, fs)
    /\ reply' = Reply("cleared", <<>>)
    /\ event' = "clear_all"
    /\ untrimmed' = <<>>
    /\ interrupted' = <<>>
    /\ calls' = <<>>
    /\ ncommit' = 0
    /\ update' = NoMessage
    /\ UNCHANGED <<pc, BOT_USERNAME, client, pending, total, last_corpus>>

\* /clearall
clear_all_cmd ==
    /\ Dispatching
    /\ bot_data' = DefaultBotData
    /\ fs' = WriteFile(save_data(DefaultBotData, fs), chat_history_file,
                       <<HistHeader, NL, NL>>)
    /\ reply' = Reply("cleared", <<>>)
    /\ event' = "clear_all"
    /\ untrimmed' = <<>>
    /\ interrupted' = <<>>
    /\ calls' = <<>>
    /\ ncommit' = 0
    /\ update' = NoMessage
    /\ UNCHANGED <<pc, BOT_USERNAME, client, pending, total, last_corpus>>

\* /showkb
show_kb_cmd ==
    /\ Dispatching
    /\ IF bot_data.knowledge_base = <<>>
       THEN Answered("kb_empty", <<>>, "show_kb")
       ELSE Answered("kb_preview", <<>>, "show_kb")
    /\ calls' = <<>>
    /\ update' = NoMessage
    /\ UNCHANGED <<pc, bot_data, BOT_USERNAME, client, fs, pending, ncommit, total, last_corpus>>

\* /weather: a model call of its own that leaves the state alone
weather_cmd(outcome) ==
    /\ Dispatching
    /\ IF ~client
       THEN /\ Answered("no_api_key", <<>>, "weather")
            /\ calls' = <<>>
       ELSE /\ calls' = << <<Turn(<<"system">>, <<"weather_system_prompt">>),
                              Turn(RoleUser, <<"what is the weather today?">>)>> >>
            /\ IF outcome.kind = "ok"
               THEN Answered("weather", Strip(outcome.content), "weather")
               ELSE IF outcome.kind = "openai_error"
               THEN Answered("weather_api_failed", <<>>, "weather")
               ELSE Answered("weather_failed", <<>>, "weather")
    /\ update' = NoMessage
    /\ UNCHANGED <<pc, bot_data, BOT_USERNAME, client, fs, pending, ncommit, total, last_corpus>>

\* a handle_file_upload that stores the document before it checks it
handle_file_upload_saving(document, downloaded) ==
    /\ Dispatching
    /\ calls' = <<>>
    /\ IF ~EndsWith(Lower(document.file_name), TxtSuffix)
       THEN /\ Answered("only_txt", <<>>, "upload_rejected")
            /\ fs' = [fs EXCEPT ![PathJoin(docs_dir, document.file_name)] =
                         [exists |-> TRUE, content |-> document.content,
                          size |-> document.file_size, mode |-> "ok"]]
            /\ UNCHANGED <<bot_data, last_corpus>>
       ELSE IF document.file_size > max_file_size
       THEN /\ Answered("too_large", <<>>, "upload_rejected")
            /\ fs' = [fs EXCEPT ![PathJoin(docs_dir, document.file_name)] =
                         [exists |-> TRUE, content |-> document.content,
                          size |-> document.file_size, mode |-> "ok"]]
            /\ UNCHANGED <<bot_data, last_corpus>>
       ELSE IF ~downloaded
       THEN /\ Answered("upload_failed", <<>>, "upload_failed")
            /\ UNCHANGED <<bot_data, fs, last_corpus>>
       ELSE LET save_path == PathJoin(docs_dir, document.file_name)
                saved == [fs EXCEPT ![save_path] =
                             [exists |-> TRUE, content |-> document.content,
                              size |-> document.file_size, mode |-> "ok"]]
            IN \E r \in {load_all_docs(bot_data, saved)} :
               /\ bot_data' = r.bot_data
               /\ fs' = r.files
               /\ untrimmed' = r.untrimmed
               /\ interrupted' = <<>>
               /\ reply' = IF r.raised THEN Reply("upload_failed", <<>>)
                           ELSE Reply("upload_ok", <<>>)
               /\ event' = IF r.raised THEN "upload_raised" ELSE "upload"
               /\ last_corpus' = IF r.raised THEN <<>> ELSE <<r.bot_data.knowledge_base>>
    /\ update' = NoMessage
    /\ UNCHANGED <<pc, BOT_USERNAME, client, pending, ncommit, total>>

\* handle_file_upload: document = [file_name, file_size, content];
\* downloaded: whether get_file/download_to_drive succeeded
handle_file_upload(document, downloaded) ==
    /\ Dispatching
    /\ calls' = <<>>
    /\ IF ~EndsWith(Lower(document.file_name), TxtSuffix)
       THEN /\ Answered("only_txt", <<>>, "upload_rejected")
            /\ UNCHANGED <<bot_data, fs, last_corpus>>
       ELSE IF document.file_size > max_file_size
       THEN /\ Answered("too_large", <<>>, "upload_rejected")
            /\ UNCHANGED <<bot_data, fs, last_corpus>>
       ELSE IF ~downloaded
       THEN /\ Answered("upload_failed", <<>>, "upload_failed")
            /\ UNCHANGED <<bot_data, fs, last_corpus>>
       ELSE LET save_path == PathJoin(docs_dir, document.file_name)
                saved == [fs EXCEPT ![save_path] =
                             [exists |-> TRUE, content |-> document.content,
                              size |-> document.file_size, mode |-> "ok"]]
            IN \E r \in {load_all_docs(bot_data, saved)} :
               /\ bot_data' = r.bot_data
               /\ fs' = r.files
               /\ untrimmed' = r.untrimmed
               /\ interrupted' = <<>>
               /\ reply' = IF r.raised THEN Reply("upload_failed", <<>>)
                           ELSE Reply("upload_ok", <<>>)
               /\ event' = IF r.raised THEN "upload_raised" ELSE "upload"
               /\ last_corpus' = IF r.raised THEN <<>> ELSE <<r.bot_data.knowledge_base>>
    /\ update' = NoMessage
    /\ UNCHANGED <<pc, BOT_USERNAME, client, pending, ncommit, total>>

\* handle_file_upload on a document it accepts, up to the first statement of
\* load_all_docs: the file is in the docs directory, the knowledge base is
\* cleared and not yet rebuilt
UploadBegin(document) ==
    /\ Dispatching
    /\ EndsWith(Lower(document.file_name), TxtSuffix)
    /\ document.file_size <= max_file_size
    /\ fs' = [fs EXCEPT ![PathJoin(docs_dir, document.file_name)] =
                 [exists |-> TRUE, content |-> document.content,
                  size |-> document.file_size, mode |-> "ok"]]
    /\ bot_data' = [bot_data EXCEPT !.knowledge_base = <<>>]
    /\ pc' = "up_reload"
    /\ event' = "upload_begin"
    /\ calls' = <<>>
    /\ update' = NoMessage
    /\ UNCHANGED <<BOT_USERNAME, client, pending, reply, untrimmed, ncommit, total,
                   interrupted, last_corpus>>

\* the rest of load_all_docs and of handle_file_upload
UploadFinish ==
    /\ pc = "up_reload"
    /\ \E r \in {load_all_docs(bot_data, fs)} :
        /\ bot_data' = r.bot_data
        /\ fs' = r.files
        /\ untrimmed' = r.untrimmed
        /\ reply' = IF r.raised THEN Reply("upload_failed", <<>>)
                    ELSE Reply("upload_ok", <<>>)
        /\ event' = IF r.raised THEN "upload_raised" ELSE "upload"
        /\ last_corpus' = IF r.raised THEN <<>> ELSE <<r.bot_data.knowledge_base>>
    /\ pc' = "idle"
    /\ interrupted' = <<>>
    /\ UNCHANGED <<BOT_USERNAME, client, update, pending, calls, ncommit, total>>

\* ------------------------------------------------------------ environment
\* someone outside the program puts, changes or removes a document
EnvPutDoc(name, file) ==
    /\ PathJoin(docs_dir, name) # chat_history_file
    /\ fs[PathJoin(docs_dir, name)] # file
    /\ fs' = [fs EXCEPT ![PathJoin(docs_dir, name)] = file]
    /\ last_corpus' = <<>>
    /\ event' = "env"
    /\ UNCHANGED <<pc, bot_data, BOT_USERNAME, client, update, pending, calls, reply,
                   untrimmed, ncommit, total, interrupted>>

\* ----------------------------------------------------------------- inputs
Mention(offset, length) == [type |-> "mention", offset |-> offset, length |-> length]
Message(text, entities) == [text |-> text, entities |-> entities]

\* "@b <question>": the bot is mentioned at the start
Ask(question) == Message(<<"@", "b", SP>> \o question, <<Mention(0, 2)>>)

Questions == {<<"x">>, <<"y">>}

OtherMessages ==
    { Message(<<>>, <<>>),                                   \* not a text message
      Message(<<"x">>, <<>>),                                \* no mention
      Message(<<"@", "a", SP, "x">>, <<Mention(0, 2)>>),     \* someone else
      Message(<<SP, "@", "B", SP>>, <<Mention(1, 2)>>) }     \* the mention alone

Contents == {<<"r">>}
Outcomes == {ModelOk(c) : c \in Contents} \cup {ModelOpenAIError, ModelMalformed}

\* context.args: the words after the command
Prompts == {<<>>, << <<"p">>, <<"q">> >>}

DocFile(content, size, mode) ==
    [exists |-> TRUE, content |-> content, size |-> size, mode |-> mode]

TextFile(content) == DocFile(content, ByteLen(content), "ok")

FileA == <<"a", ".", "t", "x", "t">>
FileB == <<"b", ".", "T", "X", "T">>
FileN == <<"n", ".", "m", "d">>

Dangling == DocFile(<<>>, 0, "dangling")
Unreadable == DocFile(<<"x">>, 1, "unreadable")
Oversize == DocFile(<<"x">>, MAX_SINGLE_FILE_SIZE + 1, "ok")

Upload(file_name, file_size, content) ==
    [file_name |-> file_name, file_size |-> file_size, content |-> content]

Uploads ==
    { Upload(FileA, 1, <<"u">>),
      Upload(FileN, 1, <<"u">>),
      Upload(FileB, max_file_size + 1, <<"u">>) }

\* ---------------------------------------------------------- specification
MaxCommits == 2

Init == \E c \in BOOLEAN : InitWith(FreshFiles, c, 0)

Next ==
    \/ MainLoadData
    \/ MainLoadAllDocs
    \/ Crash
    \/ \E o \in Outcomes : HandleMention(Ask(<<"x">>), o, MaxCommits)
    \/ \E m \in OtherMessages : HandleMention(m, ModelOpenAIError, MaxCommits)
    \/ HandleMentionLog
    \/ reload_all_cmd
    \/ start_cmd
    \/ \E p \in Prompts : set_prompt_cmd(p)
    \/ clear_all_cmd
    \/ show_kb_cmd
    \/ \E o \in Outcomes : weather_cmd(o)
    \/ \E d \in Uploads, ok \in BOOLEAN : handle_file_upload(d, ok)
    \/ \E f \in {NoFile, TextFile(<<"x">>), Dangling} : EnvPutDoc(FileA, f)

Spec == Init /\ [][Next]_vars

\* Commits from an empty conversation, far enough for the context to be trimmed
MaxExchanges == 11

NextCommit ==
    \/ MainLoadData
    \/ MainLoadAllDocs
    \/ \E o \in Outcomes : HandleMention(Ask(<<"x">>), o, MaxExchanges)
    \/ HandleMentionLog
    \/ \E p \in Prompts : set_prompt_cmd(p)
    \/ clear_all_cmd

SpecCommit == Init /\ [][NextCommit]_vars

\* A start on the files an earlier run left behind: SeedExchanges exchanges,
\* the questions "x" and "y" in turn, each answered "r", all logged
SeedExchanges == 10
MaxTrimCommits == 3

SeedQuestion(i) == IF i % 2 = 1 THEN <<"x">> ELSE <<"y">>

SeedTurns ==
    Concat([i \in 1..SeedExchanges |->
               <<Turn(RoleUser, SeedQuestion(i)), Turn(RoleAsst, <<"r">>)>>])

SeedLog ==
    <<HistHeader, NL, NL>>
    \o Concat([i \in 1..SeedExchanges |-> HistoryRecord(SeedQuestion(i), <<"r">>)])

SeedBotData == [DefaultBotData EXCEPT !.conversation_context = TrimContext(SeedTurns)]

SeedFiles == WriteFile(save_data(SeedBotData, FreshFiles), chat_history_file, SeedLog)

InitTrim == InitWith(SeedFiles, TRUE, SeedExchanges)

NextTrim ==
    \/ MainLoadData
    \/ MainLoadAllDocs
    \/ Crash
    \/ \E q \in Questions, o \in Outcomes : HandleMention(Ask(q), o, MaxTrimCommits)
    \/ HandleMentionLog
    \/ reload_all_cmd
    \/ clear_all_cmd

SpecTrim == InitTrim /\ [][NextTrim]_vars

\* ------------------------------------------------------ conversation size
Min(a, b) == IF a < b THEN a ELSE b

\* C1: after N successful commits from an empty conversation the conversation
\* holds min(2N, max_context_msg) entries, an even number
C1_LengthAfterCommits ==
    /\ Len(bot_data.conversation_context) = Min(2 * ncommit, max_context_msg)
    /\ Len(bot_data.conversation_context) % 2 = 0

\* the commit that first overflows the limit has been trimmed
C1_Witness ==
    /\ event = "commit"
    /\ 2 * ncommit > max_context_msg
    /\ Len(untrimmed) > max_context_msg

\* ---------------------------------------------- save_data and load_data
\* save_data and load_data applied to states and files drawn from bounded sets
MaxTextLen == 2

\* characters the encoder treats differently, and one it does not
JsonChars == {"n", SP, NL, BSL, QT}

TextsUpTo(n) == UNION {[1..k -> JsonChars] : k \in 0..n}

JsonContexts ==
    {<<>>} \cup {<<Turn(RoleUser, q), Turn(RoleAsst, a)>> :
                   q \in TextsUpTo(1), a \in TextsUpTo(1)}

JsonStates ==
    {[conversation_context |-> c, knowledge_base |-> kb, custom_prompt |-> p] :
        c \in JsonContexts, kb \in TextsUpTo(MaxTextLen),
        p \in {default_system_prompt, <<QT, BSL>>}}

\* data files json.load cannot read: empty, not JSON, bytes that are not
\* UTF-8, and every proper prefix of a saved state (a write that was cut short)
CorruptFiles ==
    {TextFile(<<>>), TextFile(<<"x">>), TextFile(<<LB, RB, RB>>), Unreadable}
    \cup {TextFile(SubSeq(JsonDump(DefaultBotData), 1, k)) :
              k \in 1..(Len(JsonDump(DefaultBotData)) - 1)}

\* the keys every handler reads from bot_data
StateFields == {"conversation_context", "knowledge_base", "custom_prompt"}

\* the conversation of a loaded value, when it has one
ContextOf(bd) ==
    IF "conversation_context" \in DOMAIN bd THEN bd.conversation_context ELSE <<>>

JsonStart(at, bd, files) ==
    /\ pc = at
    /\ bot_data = bd
    /\ BOT_USERNAME = <<>>
    /\ client = TRUE
    /\ fs = files
    /\ pending = <<>>
    /\ calls = <<>>
    /\ reply = NoReply
    /\ event = "init"
    /\ untrimmed = bd.conversation_context
    /\ ncommit = 0
    /\ total = 0
    /\ interrupted = <<>>
    /\ last_corpus = <<>>
    /\ update = NoMessage

InitJson ==
    \/ \E bd \in JsonStates : JsonStart("save", bd, FreshFiles)
    \/ \E f \in CorruptFiles :
          JsonStart("load", DefaultBotData, [FreshFiles EXCEPT ![data_file] = f])

SaveData ==
    /\ pc = "save"
    /\ fs' = save_data(bot_data, fs)
    /\ event' = "saved"
    /\ pc' = "load"
    /\ UNCHANGED <<bot_data, BOT_USERNAME, client, update, pending, calls, reply, untrimmed,
                   ncommit, total, interrupted, last_corpus>>

LoadData ==
    /\ pc = "load"
    /\ \E r \in {load_data(fs)} :
          /\ bot_data' = r.bot_data
          /\ fs' = r.files
          /\ event' = r.branch
          /\ untrimmed' = ContextOf(r.bot_data)
          /\ pc' = IF r.branch = "restored" THEN "loaded" ELSE "load"
    /\ UNCHANGED <<BOT_USERNAME, client, update, pending, calls, reply, ncommit, total,
                   interrupted, last_corpus>>

NextJson ==
    \/ SaveData
    \/ LoadData

SpecJson == InitJson /\ [][NextJson]_vars

\* C3: load_data right after save_data restores exactly the state that was
\* saved (conversation, corpus, system prompt)
C3_SaveLoadRoundTrip ==
    [][event = "saved" => event' = "restored" /\ bot_data' = bot_data]_vars

\* a state whose texts hold a backslash, a quote and a newline came back
C3_Witness ==
    /\ pc = "loaded"
    /\ event = "restored"
    /\ bot_data.knowledge_base = <<BSL, "n">>
    /\ bot_data.custom_prompt = <<QT, BSL>>
    /\ bot_data.conversation_context = <<Turn(RoleUser, <<NL>>), Turn(RoleAsst, <<QT>>)>>

\* C4: load_data on a corrupted data file leaves the default state in memory
\* and in the file, so the load_data after it restores the default from the
\* file and does not meet the corruption again
C4_CorruptFileHealed ==
    (event \in {"malformed", "error"}) =>
        /\ bot_data = DefaultBotData
        /\ load_data(fs) = [bot_data |-> DefaultBotData, files |-> fs, branch |-> "restored"]

\* load_data met a data file that was cut short and wrote the default over it
C4_Witness ==
    /\ event = "malformed"
    /\ bot_data = DefaultBotData
    /\ fs[data_file].content = JsonDump(DefaultBotData)

IsSuffix(s, t) == Len(s) <= Len(t) /\ s = SubSeq(t, Len(t) - Len(s) + 1, Len(t))

\* C2: in every state the conversation holds at most max_context_msg entries,
\* and they are the newest entries of the sequence the last operation built
\* (commit, re-derivation from the log, restore, /clearall), in their order
C2_NewestSuffixWithinLimit ==
    /\ Len(bot_data.conversation_context) <= max_context_msg
    /\ Len(bot_data.conversation_context) = Min(Len(untrimmed), max_context_msg)
    /\ IsSuffix(bot_data.conversation_context, untrimmed)

\* a log of more exchanges than the limit admits was read back and cut
C2_Witness ==
    /\ event \in {"reload", "main"}
    /\ Len(untrimmed) > max_context_msg
    /\ bot_data.conversation_context[1] # untrimmed[1]

\* C9: a failed model call (OpenAIError, or a response that cannot be read)
\* changes neither bot_data nor any file, is made once, and is answered with
\* a failure message
C9_FailedExchangeLeavesState ==
    [][event' = "model_error" =>
          /\ bot_data' = bot_data
          /\ fs' = fs
          /\ Len(calls') = 1
          /\ reply'.kind \in {"answer_failed", "error_tip"}]_vars

\* a model failure while the conversation, the data file and the log hold
\* earlier exchanges
C9_Witness ==
    /\ event = "model_error"
    /\ reply.kind = "error_tip"
    /\ bot_data.conversation_context # <<>>
    /\ Len(fs[chat_history_file].content) > 3

\* --------------------------------------------------------------- restart
\* C5: a commit appends and trims, persists, then logs; after a crash between
\* the persist and the log append, the restarted process holds the exchange
\* as the newest entries of its conversation
C5_InterruptedExchangeRecovered ==
    (event = "main" /\ interrupted # <<>>) =>
        /\ Len(bot_data.conversation_context) >= 2
        /\ SubSeq(bot_data.conversation_context,
                  Len(bot_data.conversation_context) - 1,
                  Len(bot_data.conversation_context))
           = <<Turn(RoleUser, interrupted[1]), Turn(RoleAsst, interrupted[2])>>

\* C6: when main has run load_data and load_all_docs, the conversation and the
\* system prompt are those load_data restored from the data file, whatever
\* the history log holds
C6_DataFileIsRecoverySource ==
    [][(pc = "main_docs" /\ event = "restored" /\ event' = "main") =>
          /\ bot_data'.conversation_context = bot_data.conversation_context
          /\ bot_data'.custom_prompt = bot_data.custom_prompt]_vars

\* -------------------------------------------------------------- documents
\* the documents as others put, change and remove them
BlankFile == TextFile(<<SP, NL>>)
PaddedFile == TextFile(<<SP, "y", NL>>)

NextDocs ==
    \/ MainLoadData
    \/ MainLoadAllDocs
    \/ reload_all_cmd
    \/ \E d \in Uploads, ok \in BOOLEAN : handle_file_upload(d, ok)
    \/ \E f \in {NoFile, TextFile(<<"x">>), PaddedFile, BlankFile, Dangling} :
          EnvPutDoc(FileA, f)
    \/ \E f \in {NoFile, TextFile(<<"x">>), Unreadable, Oversize} : EnvPutDoc(FileB, f)
    \/ \E f \in {NoFile, TextFile(<<"x">>)} : EnvPutDoc(FileN, f)

SpecDocs == InitWith(FreshFiles, TRUE, 0) /\ [][NextDocs]_vars

\* a file of the document directory that belongs in the corpus
Eligible(files, name) ==
    /\ files[PathJoin(docs_dir, name)].exists
    /\ EndsWith(Lower(name), TxtSuffix)
    /\ files[PathJoin(docs_dir, name)].size <= MAX_SINGLE_FILE_SIZE
    /\ files[PathJoin(docs_dir, name)].mode = "ok"
    /\ Strip(files[PathJoin(docs_dir, name)].content) # <<>>

\* header and trimmed content of every eligible file, in directory order
ExpectedCorpus(files) ==
    Concat([i \in 1..Len(NameOrder) |->
               IF Eligible(files, NameOrder[i])
               THEN <<NL, NL, DocOpen>> \o NameOrder[i] \o <<DocClose, NL>>
                    \o Strip(files[PathJoin(docs_dir, NameOrder[i])].content)
               ELSE <<>>])

C7_ReloadIdempotent ==
    [][(event' \in {"reload", "main"} /\ last_corpus # <<>>) =>
          bot_data'.knowledge_base = last_corpus[1]]_vars

\* C10: when a handler that changes bot_data has finished (commit, reload,
\* upload, /setprompt, /clearall), the data file holds bot_data
C10_DataFileMirrorsMemory ==
    (pc = "idle" /\ event \in {"logged", "reload", "reload_raised", "upload",
                                "upload_raised", "set_prompt", "clear_all"}) =>
        /\ fs[data_file].exists
        /\ fs[data_file].content = JsonDump(bot_data)

\* ------------------------------------------------------------- rotation
\* A start on a history file that has grown to the hard cap or up to MaxOver
\* bytes beyond it: the header, one long run of text, one logged exchange
MaxOver == 3
MaxRotCommits == 2

RotSeedRecord == HistoryRecord(<<"y">>, <<"r">>)

BigLog(fill, size) ==
    [exists |-> TRUE, content |-> <<HistHeader, NL, NL, fill, NL>> \o RotSeedRecord,
     size |-> size, mode |-> "ok"]

\* the sizes at which the run is a whole number of characters
BigLogs ==
    UNION {{BigLog(fill, size) :
               size \in {n \in MAX_CHAT_FILE_SIZE..(MAX_CHAT_FILE_SIZE + MaxOver) :
                            (n - ByteLen(<<HistHeader, NL, NL, NL>> \o RotSeedRecord))
                                % FillWidth(fill) = 0}} :
           fill \in FillChars}

InitRotate ==
    \E log \in BigLogs :
        InitWith([FreshFiles EXCEPT ![chat_history_file] = log], TRUE, 1)

NextRotate ==
    \/ MainLoadData
    \/ MainLoadAllDocs
    \/ Crash
    \/ \E q \in Questions, o \in Outcomes : HandleMention(Ask(q), o, MaxRotCommits)
    \/ HandleMentionLog
    \/ reload_all_cmd

SpecRotate == InitRotate /\ [][NextRotate]_vars

\* the marker line and the blank line the rotation writes ahead of the tail
RotMarker == <<RotHeader, NL, NL>>

\* C11 (as stated): when the history file is over the hard cap at a commit,
\* after the commit its size is at most the soft cap plus the size of the new
\* record, it begins with the rotation marker line, and the new record is
\* its last content
C11_RotatedWithinSoftCap ==
    [][(pc = "hm_log" /\ pc' = "idle"
        /\ fs[chat_history_file].size > MAX_CHAT_FILE_SIZE)
       => LET record == HistoryRecord(pending[1], pending[2])
              hist == fs'[chat_history_file]
          IN /\ hist.size <= TRIM_TO_SIZE + ByteLen(record)
             /\ StartsWith(hist.content, <<RotHeader, NL>>)
             /\ EndsWith(hist.content, record)]_vars

\* C11 (amended): when the history file is over the hard cap at a commit,
\* after the commit its size is at most the soft cap plus the marker the
\* rotation writes plus the size of the new record, it is larger than the
\* soft cap alone, it begins with the rotation marker line, and the new
\* record is its last content
C11_RotatedWithinSoftCapAndMarker ==
    [][(pc = "hm_log" /\ pc' = "idle"
        /\ fs[chat_history_file].size > MAX_CHAT_FILE_SIZE)
       => LET record == HistoryRecord(pending[1], pending[2])
              hist == fs'[chat_history_file]
          IN /\ hist.size <= TRIM_TO_SIZE + ByteLen(RotMarker) + ByteLen(record)
             /\ hist.size > TRIM_TO_SIZE
             /\ StartsWith(hist.content, <<RotHeader, NL>>)
             /\ EndsWith(hist.content, record)]_vars

\* a commit has rotated the file and logged its record; the seek fell inside
\* a wide character, which was dropped
C11_Witness ==
    /\ event = "logged"
    /\ Head(fs[chat_history_file].content) = RotHeader
    /\ FillWide \in {fs[chat_history_file].content[i] :
                        i \in 1..Len(fs[chat_history_file].content)}
    /\ fs[chat_history_file].size
          < TRIM_TO_SIZE + ByteLen(RotMarker) + ByteLen(HistoryRecord(<<"x">>, <<"r">>))
    /\ EndsWith(fs[chat_history_file].content, HistoryRecord(<<"x">>, <<"r">>))

\* ------------------------------------------------------- mention parsing
\* A character outside the Basic Multilingual Plane (an emoji): one character
\* of a Python string, two UTF-16 code units.  The platform counts the offset
\* and length of an entity in UTF-16 code units.
Astral == "(emoji)"
Units(c) == IF c = Astral THEN 2 ELSE 1
UnitsBefore(text, i) == (i - 1) + Count(SubSeq(text, 1, i - 1), Astral)

\* the entity the platform reports for the mention text[first..last]
MentionAt(text, first, last) ==
    Mention(UnitsBefore(text, first), UnitsBefore(text, last + 1) - UnitsBefore(text, first))

\* the characters of text an entity covers
SpanIndexes(text, entity) ==
    {i \in 1..Len(text) :
        /\ entity.offset <= UnitsBefore(text, i)
        /\ UnitsBefore(text, i) + Units(text[i]) <= entity.offset + entity.length}
SpanFirst(text, entity) ==
    CHOOSE i \in SpanIndexes(text, entity) : \A j \in SpanIndexes(text, entity) : i <= j
SpanLast(text, entity) ==
    CHOOSE i \in SpanIndexes(text, entity) : \A j \in SpanIndexes(text, entity) : i >= j
SpanText(text, entity) ==
    IF SpanIndexes(text, entity) = {} THEN <<>>
    ELSE SubSeq(text, SpanFirst(text, entity), SpanLast(text, entity))
WithoutSpan(text, entity) ==
    IF SpanIndexes(text, entity) = {} THEN text
    ELSE SubSeq(text, 1, SpanFirst(text, entity) - 1)
         \o SubSeq(text, SpanLast(text, entity) + 1, Len(text))

\* text messages: the bot mentioned first, in the middle, last, alone, after
\* someone else, after an emoji, before an emoji; someone else whose name ends
\* in the bot's, after two emoji; someone else; nobody
MentionMessages ==
    { Ask(<<"x">>),
      Message(<<"x", SP, "@", "B", SP, "y">>, <<Mention(2, 2)>>),
      Message(<<"x", SP, "@", "b">>, <<Mention(2, 2)>>),
      Message(<<SP, "@", "B", SP>>, <<Mention(1, 2)>>),
      Message(<<"@", "a", SP, "@", "b", SP, "x">>, <<Mention(0, 2), Mention(3, 2)>>),
      Message(<<Astral, SP, "@", "b", SP, "x">>,
              <<MentionAt(<<Astral, SP, "@", "b", SP, "x">>, 3, 4)>>),
      Message(<<"@", "b", SP, Astral>>, <<Mention(0, 2)>>),
      Message(<<Astral, Astral, "@", "a", "b">>,
              <<MentionAt(<<Astral, Astral, "@", "a", "b">>, 3, 5)>>),
      Message(<<"@", "a", SP, "x">>, <<Mention(0, 2)>>),
      Message(<<"x">>, <<>>) }

MaxMentionCommits == 2

NextMention ==
    \/ MainLoadData
    \/ MainLoadAllDocs
    \/ \E m \in MentionMessages, o \in Outcomes : HandleMention(m, o, MaxMentionCommits)
    \/ HandleMentionLog

SpecMention == InitWith(FreshFiles, TRUE, 0) /\ [][NextMention]_vars

\* a mention span as the claim normalises it: lower-cased, leading "@" stripped
NormalSpan(s) == IF s # <<>> /\ s[1] = "@" THEN Tail(Lower(s)) ELSE Lower(s)

\* the mention spans of a message that name the bot
Addressing(message, handle) ==
    {i \in 1..Len(message.entities) :
        /\ message.entities[i].type = "mention"
        /\ NormalSpan(SpanText(message.text, message.entities[i])) = handle}

\* the question of the request that was sent
AskedQuestion == calls[1][Len(calls[1])].content

\* C12: a text message is treated as addressed exactly when one of its mention
\* spans, lower-cased and without its leading "@", equals the bot's handle;
\* the question then is the text without that span, stripped
C12_MentionParsing ==
    (event \in {"not_mentioned", "no_question", "model_error", "commit"})
    => /\ (event # "not_mentioned") <=> (Addressing(update, BOT_USERNAME) # {})
       /\ event = "no_question"
            => \E i \in Addressing(update, BOT_USERNAME) :
                  Strip(WithoutSpan(update.text, update.entities[i])) = <<>>
       /\ event \in {"model_error", "commit"}
            => \E i \in Addressing(update, BOT_USERNAME) :
                  AskedQuestion = Strip(WithoutSpan(update.text, update.entities[i]))

\* ------------------------------------------------------------ the request
\* the conversation as the handler found it: a commit has added two entries
ContextBefore ==
    IF event = "commit" THEN SubSeq(untrimmed, 1, Len(untrimmed) - 2)
    ELSE bot_data.conversation_context

\* the request made of a system entry, the stored conversation and the question
RequestWith(system_msg) ==
    <<Turn(<<"system">>, system_msg)>> \o ContextBefore
    \o <<Turn(RoleUser, ParseMention(update, BOT_USERNAME).user_question)>>

\* C13 (as stated): the request is one system entry, the system prompt with
\* the delimiter and the whole corpus beneath it, then every stored turn in
\* order, then the new question
C13_RequestAlwaysDelimited ==
    (event \in {"commit", "model_error"})
    => calls = <<RequestWith(bot_data.custom_prompt \o <<NL, NL, RefHeader, NL>>
                             \o bot_data.knowledge_base)>>

\* C13 (amended): the request is one system entry, then every stored turn in
\* order, then the new question; the system entry is the system prompt with
\* the delimiter and the whole corpus beneath it when the corpus is not empty,
\* and the system prompt alone when it is
C13_Request ==
    (event \in {"commit", "model_error"})
    => calls = <<RequestWith(IF bot_data.knowledge_base = <<>>
                             THEN bot_data.custom_prompt
                             ELSE bot_data.custom_prompt \o <<NL, NL, RefHeader, NL>>
                                  \o bot_data.knowledge_base)>>

\* a request was sent with a corpus and a full conversation
C13_Witness ==
    /\ event = "commit"
    /\ bot_data.knowledge_base # <<>>
    /\ Len(ContextBefore) = max_context_msg
    /\ Len(calls[1]) = max_context_msg + 2

\* --------------------------------------------- reading the history back
\* A start on a history file an earlier run left behind: up to MaxLogRecords
\* exchanges, an answer possibly empty, the file possibly cut short anywhere
\* by a crash during the write
MaxLogRecords == 2

LogRecords ==
    {HistoryRecord(q, a) : q \in Questions, a \in Contents \cup {<<>>}}

RECURSIVE LogsOf(_)
LogsOf(n) ==
    IF n = 0 THEN {<<HistHeader, NL, NL>>}
    ELSE LogsOf(n - 1) \cup {log \o r : log \in LogsOf(n - 1), r \in LogRecords}

CutLogs ==
    UNION {{SubSeq(log, 1, k) : k \in 3..Len(log)} : log \in LogsOf(MaxLogRecords)}

InitHistory ==
    \E log \in CutLogs :
        InitWith([FreshFiles EXCEPT ![chat_history_file] = TextFile(log)], TRUE, 0)

NextHistory ==
    \/ MainLoadData
    \/ MainLoadAllDocs
    \/ reload_all_cmd

SpecHistory == InitHistory /\ [][NextHistory]_vars

\* the exchanges a text holds: a user line with a question, directly followed
\* by an assistant line with an answer, in the order of the lines
LoggedPairs(text) ==
    LET lines == ReadLines(text)
        line(i) == Strip(lines[i])
        question(i) == Strip(RemoveAll(line(i), TagUser))
        answer(i) == Strip(RemoveAll(line(i), TagAsst))
        first == SelectSeq([i \in 1..Len(lines) |-> i],
                           LAMBDA i : /\ i < Len(lines)
                                      /\ StartsWith(line(i), <<TagUser>>)
                                      /\ StartsWith(line(i + 1), <<TagAsst>>)
                                      /\ question(i) # <<>>
                                      /\ answer(i + 1) # <<>>)
    IN Concat([k \in 1..Len(first) |->
                  <<Turn(RoleUser, question(first[k])),
                    Turn(RoleAsst, answer(first[k] + 1))>>])

\* C14: the conversation rebuilt from the history file is the file's
\* user-line/assistant-line pairs in file order, a line without its partner
\* left out, so it is made of complete pairs: user and assistant in turn
C14_HistoryPairs ==
    (event \in {"main", "reload"})
    => /\ untrimmed = LoggedPairs(fs[chat_history_file].content)
       /\ bot_data.conversation_context = TrimContext(untrimmed)
       /\ Len(bot_data.conversation_context) % 2 = 0
       /\ \A i \in 1..Len(bot_data.conversation_context) :
             bot_data.conversation_context[i].role
                 = IF i % 2 = 1 THEN RoleUser ELSE RoleAsst

\* a file that ends on a user line without its assistant line was read back
C14_Witness ==
    /\ event = "main"
    /\ EndsWith(fs[chat_history_file].content, <<NL, TagUser, "y", NL>>)
    /\ untrimmed = <<Turn(RoleUser, <<"x">>), Turn(RoleAsst, <<"r">>)>>

\* ------------------------------------------------- uploads and questions
\* Uploads and questions in any order, the reload of an upload in two steps
MaxUploadCommits == 2

AcceptedUploads == {Upload(FileA, 1, <<"u">>), Upload(FileB, 1, <<"v">>)}

NextUpload ==
    \/ MainLoadData
    \/ MainLoadAllDocs
    \/ \E d \in AcceptedUploads : UploadBegin(d)
    \/ UploadFinish
    \/ \E q \in Questions, o \in Outcomes : HandleMention(Ask(q), o, MaxUploadCommits)
    \/ HandleMentionLog

SpecUpload == InitWith(FreshFiles, TRUE, 0) /\ [][NextUpload]_vars

\* the system entry of a request over corpus kb
SystemEntry(prompt, kb) ==
    Turn(<<"system">>, IF kb = <<>> THEN prompt ELSE prompt \o <<NL, NL, RefHeader, NL>> \o kb)

C16_FailingFileSkipped ==
    (event \in {"reload", "reload_raised", "upload", "upload_raised"})
    => /\ event \in {"reload", "upload"}
       /\ bot_data.knowledge_base = ExpectedCorpus(fs)
       /\ fs[data_file].content = JsonDump(bot_data)

\* ------------------------------------------------- a save that fails
\* save_data and load_data on states drawn from a bounded set, the data file
\* absent, writable or write-protected
WriteProtected(file) == [file EXCEPT !.mode = "readonly"]

SaveFiles ==
    {NoFile, TextFile(JsonDump(DefaultBotData)),
     WriteProtected(TextFile(JsonDump(DefaultBotData)))}

InitSave ==
    \E bd \in JsonStates, f \in SaveFiles :
        JsonStart("save", bd, [FreshFiles EXCEPT ![data_file] = f])

SpecSave == InitSave /\ [][NextJson]_vars

\* C17: save_data returns normally only when the data file holds the state
\* it was given; a write that fails is reported to the caller
C17_SaveReportsFailure ==
    (event = "saved") => fs[data_file].content = JsonDump(bot_data)

\* ------------------------------------------------------ rejected uploads
\* C18: an upload whose name does not end in .txt or whose size is above
\* max_file_size is refused and the user told so, with nothing written to any
\* file, no reload, and bot_data as it was
C18_RejectedUploadChangesNothing ==
    [][(event' = "upload_rejected")
       => /\ fs' = fs
          /\ bot_data' = bot_data
          /\ last_corpus' = last_corpus
          /\ reply'.kind \in {"only_txt", "too_large"}]_vars

\* an upload above the size limit was refused while the bot held a corpus
C18_Witness ==
    /\ event = "upload_rejected"
    /\ reply.kind = "too_large"
    /\ bot_data.knowledge_base # <<>>
    /\ ~fs[PathJoin(docs_dir, FileB)].exists

\* ------------------------------------------------- the mention alone
\* C19: a message that addresses the bot and holds nothing else but white
\* space is answered with the no-question prompt; no request is sent to the
\* model, and conversation, data file and history file stay as they were
C19_EmptyQuestionNotForwarded ==
    [][(/\ event' \in {"not_mentioned", "no_question", "no_client", "model_error", "commit"}
        /\ \E i \in Addressing(update', BOT_USERNAME') :
               Strip(WithoutSpan(update'.text, update'.entities[i])) = <<>>)
       => /\ reply'.kind = "no_question_tip"
          /\ calls' = <<>>
          /\ bot_data' = bot_data
          /\ fs' = fs
          /\ pc' = pc]_vars

\* the mention alone was sent after an exchange had been committed
C19_Witness ==
    /\ event = "no_question"
    /\ update = Message(<<SP, "@", "B", SP>>, <<Mention(1, 2)>>)
    /\ reply.kind = "no_question_tip"
    /\ bot_data.conversation_context # <<>>
    /\ calls = <<>>

\* ------------------------------------------------------ always a reply
\* C20: when the handler of a text message that addresses the bot has
\* returned, the user has been sent a reply: the answer, the no-question
\* prompt or a failure message
C20_AddressedMessageAnswered ==
    (/\ pc = "idle"
     /\ event \in {"not_mentioned", "no_question", "no_client", "model_error", "logged"}
     /\ update.text # <<>>
     /\ Addressing(update, BOT_USERNAME) # {})
    => reply.kind \in {"answer", "no_question_tip", "no_api_key", "answer_failed", "error_tip"}

\* ------------------------------------------------------- not addressed
\* C21: a text message none of whose mention spans names the bot is handled
\* without any effect: no reply, no request to the model, bot_data and every
\* file as they were
C21_NotAddressedNoOp ==
    [][(/\ event' \in {"not_mentioned", "no_question", "no_client", "model_error", "commit"}
        /\ update'.text # <<>>
        /\ Addressing(update', BOT_USERNAME') = {})
       => /\ reply' = NoReply
          /\ calls' = <<>>
          /\ bot_data' = bot_data
          /\ fs' = fs
          /\ pc' = pc]_vars

\* -------------------------------------------------------------- /clearall
\* C22: after /clearall the conversation and the knowledge base are empty,
\* the prompt is the default one, the data file holds that state, the history
\* file holds its header only, and a load_all_docs that follows finds no
\* conversation turn in it
C22_ClearAllClears ==
    (event = "clear_all")
    => /\ bot_data = DefaultBotData
       /\ fs[data_file].exists
       /\ fs[data_file].content = JsonDump(DefaultBotData)
       /\ load_data(fs).bot_data = DefaultBotData
       /\ fs[chat_history_file].content = <<HistHeader, NL, NL>>
       /\ \A r \in {load_all_docs(bot_data, fs)} :
             ~r.raised => r.bot_data.conversation_context = <<>>

\* /clearall was sent after an exchange was committed, a document lies in the
\* docs directory and the prompt had been changed
C22_Witness ==
    /\ event = "clear_all"
    /\ total > 0
    /\ fs[PathJoin(docs_dir, FileA)] = TextFile(<<"u">>)
    /\ reply.kind = "cleared"

\* ------------------------------------------------ log and memory agree
\* Commits of questions and answers of one line, of two lines, and holding
\* the user tag, then reloads
MaxLogCommits == 2

LogQuestions == {<<"x">>, <<"x", NL, "y">>, <<"x", TagUser, "y">>}
LogAnswers == {<<"r">>, <<"r", NL, "s">>}

NextLog ==
    \/ MainLoadData
    \/ MainLoadAllDocs
    \/ \E q \in LogQuestions, c \in LogAnswers :
          HandleMention(Ask(q), ModelOk(c), MaxLogCommits)
    \/ HandleMentionLog
    \/ reload_all_cmd
    \/ clear_all_cmd

SpecLog == InitWith(FreshFiles, TRUE, 0) /\ [][NextLog]_vars

\* C23: after commits (and /clearall) a reload re-derives from the history
\* file the conversation that was in memory just before it, whatever the
\* texts of the questions and answers
C23_LogAgreesWithMemory ==
    [][(event' = "reload")
       => bot_data'.conversation_context = bot_data.conversation_context]_vars

\* ------------------------------------------- the history file as document
\* C24: the history file is not taken in as a document: the knowledge base a
\* load_all_docs produces is that of the docs directory without it
C24_HistoryFileNotIngested ==
    (event \in {"main", "reload", "upload"})
    => bot_data.knowledge_base = ExpectedCorpus([fs EXCEPT ![chat_history_file] = NoFile])

\* ------------------------------------------------- failure after commit
\* Questions whose answers may be empty, and a history file that someone
\* outside the program may write-protect
MaxReplyCommits == 2

BlankAnswer == ModelOk(<<SP>>)

EnvProtectLog ==
    /\ pc = "idle"
    /\ fs[chat_history_file].exists
    /\ fs[chat_history_file].mode = "ok"
    /\ fs' = [fs EXCEPT ![chat_history_file] = WriteProtected(@)]
    /\ event' = "env"
    /\ UNCHANGED <<pc, bot_data, BOT_USERNAME, client, update, pending, calls, reply,
                   untrimmed, ncommit, total, interrupted, last_corpus>>

NextReply ==
    \/ MainLoadData
    \/ MainLoadAllDocs
    \/ \E q \in Questions, o \in Outcomes \cup {BlankAnswer} :
          HandleMention(Ask(q), o, MaxReplyCommits)
    \/ HandleMentionLog
    \/ EnvProtectLog

SpecReply == Init /\ [][NextReply]_vars

\* the conversation as the handler of the last message found it
ContextBeforeMessage ==
    IF event \in {"commit", "logged", "log_failed", "reply_failed"}
    THEN SubSeq(untrimmed, 1, Len(untrimmed) - 2)
    ELSE untrimmed

\* C25: when handle_mention has answered with a failure message, the
\* conversation and the data file are what they were before the message
C25_FailureReplyLeavesState ==
    (/\ event \in {"no_client", "model_error", "log_failed", "reply_failed"}
     /\ reply.kind \in {"no_api_key", "answer_failed", "error_tip"})
    => /\ bot_data.conversation_context = ContextBeforeMessage
       /\ fs[data_file].content
            = JsonDump([bot_data EXCEPT !.conversation_context = ContextBeforeMessage])

\* -------------------------------------------- load_data on any data file
\* data files json.load reads without error although they hold no complete
\* state: an empty object, an empty array, an empty string, and objects that
\* lack some of the three keys
IncompleteFiles ==
    {TextFile(<<LB, RB>>), TextFile(<<LK, RK>>), TextFile(<<QT, QT>>),
     TextFile(<<LB>> \o DumpMember("knowledge_base", DumpStr(<<"k">>)) \o <<RB>>),
     TextFile(<<LB>> \o DumpMember("conversation_context", <<LK, RK>>) \o <<COMMA, SP>>
              \o DumpMember("knowledge_base", DumpStr(<<>>)) \o <<RB>>)}

InitLoad ==
    \/ InitJson
    \/ \E f \in IncompleteFiles \cup {NoFile} :
          JsonStart("load", DefaultBotData, [FreshFiles EXCEPT ![data_file] = f])

SpecLoad == InitLoad /\ [][NextJson]_vars

\* C26: after load_data has returned, whatever the data file held, bot_data
\* has the three fields conversation_context, knowledge_base and custom_prompt
C26_LoadedStateWellFormed ==
    (event \in {"restored", "malformed", "error", "absent"})
    => DOMAIN bot_data = StateFields
====
